---- MODULE Spec2Model ----
(***************************************************************************)
(* Fermi Problem Practice App (src/app.js): the answer evaluator, the      *)
(* session tracker, the question loader and the UI event handlers.         *)
(*                                                                         *)
(* Text is a sequence of one-character strings.  A value that JavaScript   *)
(* may leave null is an option: Null, or <<v>> holding v.  A number is a   *)
(* record [kind, neg, mant, exp]: kind "nan", "inf" or "fin", and a finite *)
(* number is (-1)^neg * mant * 10^exp with mant not divisible by 10 (zero  *)
(* is mant = 0, exp = 0), so that equal numbers are equal records.         *)
(***************************************************************************)
EXTENDS Integers, Sequences, FiniteSets, TLC

VARIABLES
    \* the page
    page,               \* "loading" until DOMContentLoaded has run, then "ready"
    data,               \* the global that data.js sets
    bootStage,          \* showBootSequence: "boot", "fading" or "desktop"
    \* module state of app.js
    questionsArray,
    currentQuestion,    \* option of a question
    questionsAnswered,
    totalError,
    withinOneOrder,
    \* DOM elements
    questionDisplay,    \* the pieces of its content
    answerInput,        \* [value, disabled, borderColor]
    submitBtn,          \* [disabled]
    resultDisplay,      \* [display]
    resultContent,      \* option of the result shown
    errorMessage,       \* [textContent, display]
    statQuestions,      \* text
    statError,          \* text
    statAccuracy,       \* text
    \* loadQuestions and the DOMContentLoaded handler
    loadState,          \* the promise: "idle", "polling", "resolved" or "rejected"
    attempts,
    loadError,          \* the message of the rejection
    questionsLoaded,
    bootComplete,
    bootTimer,          \* the 1200 ms timer of the handler is pending
    errorTimer,         \* the 1200 ms timer of the catch: "none", "pending", "fired"
    \* history
    event,              \* the last event handled, and how checkAnswer returned in it
    errs,               \* the errors of the accepted answers, in order
    initialDisplays,    \* the calls of displayQuestion by showQuestionWhenReady
    scoresOfQuestion,   \* the answers accepted since the last call of displayQuestion
    \* the evaluator pipeline, run on its own
    evPc,       \* position
    evIn,       \* the text handed to parseUserInput
    evNum,      \* option of the number parsed, or picked
    evOrder,    \* option of toOrderOfMagnitude's result
    evCorrect,  \* option of the question's order
    evErr,      \* option of calculateError's result
    evFeedback, \* option of [class, message]
    evStats,    \* the counters handed to updateScoreTracker
    evShown,    \* option of the texts updateScoreTracker shows
    evRet       \* how checkAnswer returned on the text

appVars ==
    <<page, data, bootStage, questionsArray, currentQuestion, questionsAnswered, totalError,
      withinOneOrder, questionDisplay, answerInput, submitBtn, resultDisplay, resultContent,
      errorMessage, statQuestions, statError, statAccuracy, loadState, attempts,
      loadError, questionsLoaded, bootComplete, bootTimer, errorTimer, event, errs,
      initialDisplays, scoresOfQuestion>>

evVars ==
    <<evPc, evIn, evNum, evOrder, evCorrect, evErr, evFeedback, evStats, evShown, evRet>>

vars == <<appVars, evVars>>

Null == <<>>

Some(v) == <<v>>

(***************************************************************************)
(* Bounds                                                                  *)
(***************************************************************************)
MaxLen == 4     \* longest text handed to parseUserInput

MaxMant == 400  \* largest mantissa of a number handed to toOrderOfMagnitude

MaxExp == 3     \* largest |exponent| of such a number

MaxOrder == 4   \* largest order of magnitude handed to calculateError

MaxQuestions == 2   \* most questions data.js defines

MaxAnswered == 2    \* most answers accepted in a session

MaxTracked == 6     \* most answers counted when updateScoreTracker runs on its own

Alphabet == {"0", "1", "3", ".", "e", "E", "-", " ", "x"}

RECURSIVE Texts(_)
Texts(n) ==
    IF n = 0 THEN {<<>>}
    ELSE LET shorter == Texts(n - 1)
         IN  shorter \cup {Append(t, c) : t \in {u \in shorter : Len(u) = n - 1}, c \in Alphabet}

(***************************************************************************)
(* Numbers                                                                 *)
(***************************************************************************)
RECURSIVE Pow10(_)
Pow10(n) == IF n = 0 THEN 1 ELSE 10 * Pow10(n - 1)

\* number of decimal digits of m >= 1
RECURSIVE NumDigits(_)
NumDigits(m) == IF m < 10 THEN 1 ELSE 1 + NumDigits(m \div 10)

NaN == [kind |-> "nan", neg |-> FALSE, mant |-> 0, exp |-> 0]

Infinity(neg) == [kind |-> "inf", neg |-> neg, mant |-> 0, exp |-> 0]

Zero(neg) == [kind |-> "fin", neg |-> neg, mant |-> 0, exp |-> 0]

\* m * 10^e with the trailing zeros of m moved into the exponent
RECURSIVE Canonical(_, _, _)
Canonical(neg, m, e) ==
    IF m = 0 THEN Zero(neg)
    ELSE IF m % 10 = 0 THEN Canonical(neg, m \div 10, e + 1)
    ELSE [kind |-> "fin", neg |-> neg, mant |-> m, exp |-> e]

\* the first nine significant digits of m (m has at most nine)
Lead9(m) == m * Pow10(9 - NumDigits(m))

\* The double nearest to m * 10^e: beyond the largest double it is Infinity,
\* below half the smallest one it is zero.
ToDouble(neg, m, e) ==
    IF m = 0 THEN Zero(neg)
    ELSE LET order == NumDigits(m) - 1 + e
         IN  IF order > 308 \/ (order = 308 /\ Lead9(m) >= 179769314) THEN Infinity(neg)
             ELSE IF order < -324 \/ (order = -324 /\ Lead9(m) <= 247032822) THEN Zero(neg)
             ELSE Canonical(neg, m, e)

isNaN(num) == num.kind = "nan"

isFinite(num) == num.kind = "fin"

IsZero(num) == num.kind = "fin" /\ num.mant = 0

\* num < 0 that is never true
IsNegativeNever(num) == FALSE

IsNegative(num) == num.kind # "nan" /\ num.neg /\ ~IsZero(num)

IsPositive(num) == num.kind # "nan" /\ ~num.neg /\ ~IsZero(num)

(***************************************************************************)
(* Text                                                                    *)
(***************************************************************************)
DigitChars == <<"0", "1", "2", "3", "4", "5", "6", "7", "8", "9">>

IsDigit(c) == \E i \in 1..10 : DigitChars[i] = c

DigitVal(c) == (CHOOSE i \in 1..10 : DigitChars[i] = c) - 1

IsWhite(c) == c = " "

RECURSIVE TrimStart(_)
TrimStart(s) == IF s # <<>> /\ IsWhite(Head(s)) THEN TrimStart(Tail(s)) ELSE s

RECURSIVE TrimEnd(_)
TrimEnd(s) ==
    IF s # <<>> /\ IsWhite(s[Len(s)]) THEN TrimEnd(SubSeq(s, 1, Len(s) - 1)) ELSE s

\* String.prototype.trim
Trim(s) == TrimEnd(TrimStart(s))

\* length of the run of digits of s that starts at position i
RECURSIVE DigitRun(_, _)
DigitRun(s, i) == IF i <= Len(s) /\ IsDigit(s[i]) THEN 1 + DigitRun(s, i + 1) ELSE 0

\* the value of the n digits of s that start at position i
RECURSIVE DigitsValue(_, _, _)
DigitsValue(s, i, n) ==
    IF n = 0 THEN 0 ELSE 10 * DigitsValue(s, i, n - 1) + DigitVal(s[i + n - 1])

InfinityChars == <<"I", "n", "f", "i", "n", "i", "t", "y">>

StartsWithAt(s, i, p) == i + Len(p) - 1 <= Len(s) /\ SubSeq(s, i, i + Len(p) - 1) = p

(***************************************************************************)
(* parseFloat: the number denoted by the longest prefix of the text, after *)
(* leading white space, that is a decimal literal                          *)
(*   [+-] (Infinity | digits [. [digits]] [exponent] | . digits [exponent]) *)
(* with exponent = (e|E) [+-] digits; NaN when no prefix is one.  The scan *)
(* goes left to right, each step handing on what it has read.              *)
(***************************************************************************)
IsSign(c) == c \in {"+", "-"}

CharAt(s, i, chars) == i <= Len(s) /\ s[i] \in chars

\* the value of the run of digits of s that starts at position i
DigitRunValue(s, i) == DigitsValue(s, i, DigitRun(s, i))

\* the exponent that starts at position i of t, 0 when none does
ExponentAt(t, i) ==
    IF ~CharAt(t, i, {"e", "E"}) THEN 0
    ELSE IF CharAt(t, i + 1, {"-"}) THEN 0 - DigitRunValue(t, i + 2)
    ELSE IF CharAt(t, i + 1, {"+"}) THEN DigitRunValue(t, i + 2)
    ELSE DigitRunValue(t, i + 1)

\* the literal read: nInt digits from i0, then a point and nFrac digits if
\* hasDot, then the exponent
DecimalValue(t, neg, i0, nInt, hasDot, nFrac) ==
    IF nInt + nFrac = 0 THEN NaN
    ELSE ToDouble(neg,
                  DigitsValue(t, i0, nInt) * Pow10(nFrac)
                      + DigitsValue(t, i0 + nInt + 1, nFrac),
                  ExponentAt(t, i0 + nInt + (IF hasDot THEN 1 + nFrac ELSE 0)) - nFrac)

DecimalFraction(t, neg, i0, nInt, hasDot) ==
    DecimalValue(t, neg, i0, nInt, hasDot,
                 IF hasDot THEN DigitRun(t, i0 + nInt + 1) ELSE 0)

DecimalInteger(t, neg, i0, nInt) ==
    DecimalFraction(t, neg, i0, nInt, CharAt(t, i0 + nInt, {"."}))

UnsignedLiteral(t, neg, i0) ==
    IF StartsWithAt(t, i0, InfinityChars) THEN Infinity(neg)
    ELSE DecimalInteger(t, neg, i0, DigitRun(t, i0))

SignedLiteral(t) ==
    IF CharAt(t, 1, {"+", "-"}) THEN UnsignedLiteral(t, t[1] = "-", 2)
    ELSE UnsignedLiteral(t, FALSE, 1)

parseFloat(s) == SignedLiteral(TrimStart(s))

(***************************************************************************)
(* The answer evaluator                                                    *)
(***************************************************************************)
parseUserInput(input) ==
    LET trimmed == Trim(input)
        num == parseFloat(trimmed)
    IN  IF trimmed = <<>> THEN Null
        ELSE IF isNaN(num) \/ ~isFinite(num) THEN Null
        ELSE IF IsZero(num) THEN Null
        ELSE IF IsNegative(num) THEN Null
        ELSE Some(num)

\* floor(log10(m)) of an integer m >= 1
Log10Floor(m) == NumDigits(m) - 1

\* the rule of the comment above toOrderOfMagnitude: a mantissa of 3.16 or more
Log10FracAtLeast316(m) == m * 100 >= 316 * Pow10(Log10Floor(m))

\* log10(m) - floor(log10(m)) >= 1/2, that is m >= sqrt(10) * 10^floor(log10(m))
Log10FracAtLeastHalf(m) == m * m >= Pow10(2 * Log10Floor(m) + 1)

\* Math.round(Math.log10(num)) of a finite number > 0; Math.round takes a
\* fraction of one half or more up
RoundLog10(num) ==
    num.exp + Log10Floor(num.mant) + (IF Log10FracAtLeastHalf(num.mant) THEN 1 ELSE 0)

toOrderOfMagnitude(num) ==
    IF ~IsPositive(num) THEN Null
    ELSE Some(RoundLog10(num))

\* Math.max(0, userOrder - correctOrder) in place of Math.abs
calculateErrorClamped(userOrder, correctOrder) ==
    IF userOrder - correctOrder < 0 THEN 0 ELSE userOrder - correctOrder

calculateError(userOrder, correctOrder) ==
    IF userOrder - correctOrder < 0 THEN correctOrder - userOrder ELSE userOrder - correctOrder

getFeedbackClassStrict(error) ==
    IF error = 0 THEN "feedback-exact"
    ELSE IF error = 1 THEN "feedback-close"
    ELSE IF error < 2 THEN "feedback-ballpark"
    ELSE "feedback-off"

getFeedbackClass(error) ==
    IF error = 0 THEN "feedback-exact"
    ELSE IF error = 1 THEN "feedback-close"
    ELSE IF error <= 2 THEN "feedback-ballpark"
    ELSE "feedback-off"

\* the message, as the pieces the template joins
getFeedbackMessage(error) ==
    IF error = 0 THEN <<"Exactly right!">>
    ELSE IF error = 1 THEN <<"Close! Off by 1 order of magnitude">>
    ELSE IF error <= 2 THEN <<"In the ballpark. Off by ", error, " orders of magnitude">>
    ELSE <<"Off by ", error, " orders of magnitude">>

(***************************************************************************)
(* The session tracker                                                     *)
(***************************************************************************)
\* the decimal digits of n >= 0: String(n)
RECURSIVE String(_)
String(n) ==
    IF n < 10 THEN <<DigitChars[n + 1]>>
    ELSE Append(String(n \div 10), DigitChars[(n % 10) + 1])

\* text.padStart(3, '0')
RECURSIVE padStart3(_)
padStart3(text) == IF Len(text) >= 3 THEN text ELSE padStart3(<<"0">> \o text)

\* Math.floor(x) of x = num / den, den > 0
Floor(num, den) == num \div den

\* Math.round(x) of x = num / den, den > 0: floor(x + 1/2)
MathRound(num, den) == (2 * num + den) \div (2 * den)

\* (x).toFixed(1) of x = num / den >= 0, den > 0: the nearest tenth, the larger
\* of two that are as near
toFixed1(num, den) ==
    LET tenths == MathRound(10 * num, den)
    IN  String(tenths \div 10) \o <<".">> \o String(tenths % 10)

\* Math.round((withinOneOrder / questionsAnswered) * 100), with Math.floor
AccuracyFloored(within, answered) ==
    IF answered > 0 THEN Floor(100 * within, answered) ELSE 0

\* Math.round((withinOneOrder / questionsAnswered) * 100)
Accuracy(within, answered) ==
    IF answered > 0 THEN MathRound(100 * within, answered) ELSE 0

AvgError(total, answered) ==
    IF answered > 0 THEN toFixed1(total, answered) ELSE <<"0", ".", "0">>

updateScoreTracker(s) ==
    LET avgError == AvgError(s.totalError, s.questionsAnswered)
        accuracy == Accuracy(s.withinOneOrder, s.questionsAnswered)
    IN  [s EXCEPT !.statQuestions = padStart3(String(s.questionsAnswered)),
                  !.statError = avgError,
                  !.statAccuracy = padStart3(String(accuracy)) \o <<"%">>]

(***************************************************************************)
(* The page.  A handler is an operator from the state it finds, a record   *)
(* of the module state and the DOM, to the state it leaves; s.ret records  *)
(* how the last call of checkAnswer returned, s.errs the errors scored.    *)
(***************************************************************************)
Question(i) ==
    [question |-> <<"question", i>>, answer |-> 2 * i - 1, source |-> "source", number |-> i]

\* what data.js may define: an array of no, one or more questions
DataArrays == {[i \in 1..n |-> Question(i)] : n \in 0..MaxQuestions}

Undefined == [defined |-> FALSE, isArray |-> FALSE, items |-> <<>>]

NotArray == [defined |-> TRUE, isArray |-> FALSE, items |-> <<>>]

Array(items) == [defined |-> TRUE, isArray |-> TRUE, items |-> items]

DataValues == {NotArray} \cup {Array(a) : a \in DataArrays}

\* typeof data !== 'undefined' && Array.isArray(data)
DataIsArray(d) == d.defined /\ d.isArray

NoQuestionsFound == "No questions found in data file."

DataNotLoaded ==
    "Question data not loaded. Please check your internet connection and refresh the page."

\* the texts a user types
TypedTexts ==
    { <<>>, <<" ">>, <<"x">>, <<"-", "1">>, <<"1">>, <<"1", "x">>, <<"1", "e", "3">> }

Keys == {"Enter", "ArrowRight", "a"}

Cur ==
    [questionsArray |-> questionsArray, currentQuestion |-> currentQuestion,
     questionsAnswered |-> questionsAnswered, totalError |-> totalError,
     withinOneOrder |-> withinOneOrder, questionDisplay |-> questionDisplay,
     answerInput |-> answerInput, submitBtn |-> submitBtn,
     resultDisplay |-> resultDisplay, resultContent |-> resultContent,
     errorMessage |-> errorMessage, statQuestions |-> statQuestions,
     statError |-> statError, statAccuracy |-> statAccuracy,
     errs |-> errs, initialDisplays |-> initialDisplays,
     scoresOfQuestion |-> scoresOfQuestion, ret |-> "none"]

Becomes(s) ==
    /\ questionsArray' = s.questionsArray
    /\ currentQuestion' = s.currentQuestion
    /\ questionsAnswered' = s.questionsAnswered
    /\ totalError' = s.totalError
    /\ withinOneOrder' = s.withinOneOrder
    /\ questionDisplay' = s.questionDisplay
    /\ answerInput' = s.answerInput
    /\ submitBtn' = s.submitBtn
    /\ resultDisplay' = s.resultDisplay
    /\ resultContent' = s.resultContent
    /\ errorMessage' = s.errorMessage
    /\ statQuestions' = s.statQuestions
    /\ statError' = s.statError
    /\ statAccuracy' = s.statAccuracy
    /\ errs' = s.errs
    /\ initialDisplays' = s.initialDisplays
    /\ scoresOfQuestion' = s.scoresOfQuestion

\* Math.floor(Math.random() * questionsArray.length), from 1; 0 when there is none
RandomIndexes(s) == IF Len(s.questionsArray) = 0 THEN {0} ELSE 1..Len(s.questionsArray)

getRandomQuestion(s, randomIndex) ==
    IF Len(s.questionsArray) = 0 THEN Null ELSE Some(s.questionsArray[randomIndex])

showErrorMessageAndDisable(s, message) ==
    [s EXCEPT !.errorMessage = [textContent |-> message, display |-> "block"],
              !.answerInput.borderColor = "#f44336",
              !.answerInput.disabled = TRUE,
              !.submitBtn.disabled = TRUE]

showErrorMessage(s, message) ==
    [s EXCEPT !.errorMessage = [textContent |-> message, display |-> "block"],
              !.answerInput.borderColor = "#f44336"]

hideErrorMessage(s) ==
    [s EXCEPT !.errorMessage.display = "none",
              !.answerInput.borderColor = "#ddd"]

NoQuestionsAvailable(s) ==
    [s EXCEPT !.questionDisplay = <<"No questions available.">>,
              !.answerInput.disabled = TRUE,
              !.submitBtn.disabled = TRUE]

displayQuestion(s, randomIndex) ==
    IF Len(s.questionsArray) = 0 THEN NoQuestionsAvailable([s EXCEPT !.scoresOfQuestion = 0])
    ELSE LET picked == [s EXCEPT !.currentQuestion = getRandomQuestion(s, randomIndex),
                                 !.scoresOfQuestion = 0]
             q == picked.currentQuestion
         IN  IF q = Null THEN NoQuestionsAvailable(picked)
             ELSE hideErrorMessage(
                    [picked EXCEPT !.questionDisplay =
                                       <<q[1].question, q[1].source, q[1].number>>,
                                   !.answerInput.value = <<>>,
                                   !.resultDisplay.display = "none"])

\* withinOneOrder++ under error < 1
WithinOneOrderStepStrict(error) == IF error < 1 THEN 1 ELSE 0

\* if (error <= 1) withinOneOrder++
WithinOneOrderStep(error) == IF error <= 1 THEN 1 ELSE 0

\* the results shown, with the input and the button left enabled
showResultsOnly(s) == [s EXCEPT !.resultDisplay.display = "block"]

\* "Show results and disable input"
showResults(s) ==
    [s EXCEPT !.resultDisplay.display = "block",
              !.answerInput.disabled = TRUE,
              !.submitBtn.disabled = TRUE]

checkAnswer(s) ==
    LET userInput == Trim(s.answerInput.value)
        userNumber == parseUserInput(userInput)
    IN  IF userInput = <<>>
        THEN [showErrorMessage(s, "Please enter an answer") EXCEPT !.ret = "empty"]
        ELSE IF userNumber = Null
        THEN [showErrorMessage(s, "Please enter a valid number") EXCEPT !.ret = "invalid"]
        ELSE IF s.currentQuestion = Null
        THEN [showErrorMessage(s, "No question loaded") EXCEPT !.ret = "noQuestion"]
        ELSE LET correctOrder == s.currentQuestion[1].answer
                 userOrder == toOrderOfMagnitude(userNumber[1])
             IN  IF userOrder = Null
                 THEN [showErrorMessage(s, "Please enter a valid positive number")
                          EXCEPT !.ret = "notPositive"]
                 ELSE LET error == calculateError(userOrder[1], correctOrder)
                          counted ==
                              [hideErrorMessage(s) EXCEPT
                                  !.questionsAnswered = @ + 1,
                                  !.totalError = @ + error,
                                  !.withinOneOrder = @ + WithinOneOrderStep(error),
                                  !.errs = Append(@, error),
                                  !.scoresOfQuestion = @ + 1]
                      IN  showResults(
                            [updateScoreTracker(counted) EXCEPT
                                !.resultContent =
                                    Some([userOrder |-> userOrder[1],
                                          correctOrder |-> correctOrder,
                                          error |-> error,
                                          class |-> getFeedbackClass(error),
                                          message |-> getFeedbackMessage(error)]),
                                !.ret = "scored"])

\* nextQuestion that starts the session over
nextQuestionResetting(s, randomIndex) ==
    displayQuestion([s EXCEPT !.answerInput.disabled = FALSE,
                              !.submitBtn.disabled = FALSE,
                              !.questionsAnswered = 0,
                              !.totalError = 0,
                              !.withinOneOrder = 0], randomIndex)

\* nextQuestion that takes the last question out of the array
nextQuestionDropping(s, randomIndex) ==
    [displayQuestion([s EXCEPT !.answerInput.disabled = FALSE,
                               !.submitBtn.disabled = FALSE], randomIndex)
        EXCEPT !.questionsArray = SubSeq(@, 1, Len(@) - 1)]

nextQuestion(s, randomIndex) ==
    displayQuestion([s EXCEPT !.answerInput.disabled = FALSE,
                              !.submitBtn.disabled = FALSE], randomIndex)

\* the keydown listener of answerInput
inputKeydown(s, key) ==
    IF key = "Enter" /\ ~s.answerInput.disabled THEN checkAnswer(s) ELSE s

\* the keydown listener of document
documentKeydown(s, key, randomIndex) ==
    IF s.resultDisplay.display = "block" /\ key \in {"Enter", "ArrowRight"}
    THEN nextQuestion(s, randomIndex)
    ELSE s

\* the input listener of answerInput
inputInput(s) ==
    IF s.errorMessage.display = "block" THEN hideErrorMessage(s) ELSE s

\* showQuestionWhenReady that waits for one of the two only
showQuestionWhenEither(s, loaded, booted, randomIndex) ==
    IF (loaded \/ booted) /\ Len(s.questionsArray) > 0
    THEN displayQuestion([s EXCEPT !.initialDisplays = @ + 1], randomIndex)
    ELSE s

\* showQuestionWhenReady of the DOMContentLoaded handler
showQuestionWhenReady(s, loaded, booted, randomIndex) ==
    IF loaded /\ booted /\ Len(s.questionsArray) > 0
    THEN displayQuestion([s EXCEPT !.initialDisplays = @ + 1], randomIndex)
    ELSE s

\* the timer of the catch, with the input left enabled
showLoadErrorOnly(s, message) ==
    [s EXCEPT !.questionDisplay = <<"ERROR: ", message>>,
              !.submitBtn.disabled = TRUE]

\* the timer of the catch of the DOMContentLoaded handler
showLoadError(s, message) ==
    [s EXCEPT !.questionDisplay = <<"ERROR: ", message>>,
              !.answerInput.disabled = TRUE,
              !.submitBtn.disabled = TRUE]

(***************************************************************************)
(* loadQuestions and the events of the page.  An action is one task of the *)
(* event loop with the microtasks it leaves: the code after await runs in  *)
(* the task that settles the promise.  attempts is a local of the executor *)
(* of loadQuestions: it is 0 while no interval runs, and is dropped (0     *)
(* again) when the interval is cleared.                                    *)
(***************************************************************************)
maxAttempts == 50

\* DataCheck without the test data.length === 0
DataCheckAnyArray(d) == IF DataIsArray(d) THEN "resolved" ELSE "polling"

\* typeof data !== 'undefined' && Array.isArray(data), then data.length === 0:
\* how one look at data settles the promise, "polling" when it does not
DataCheck(d) ==
    IF DataIsArray(d)
    THEN IF Len(d.items) = 0 THEN "rejected" ELSE "resolved"
    ELSE "polling"

\* the event handled, and how checkAnswer returned in it ("none": not called)
Event(name, s) == [name |-> name, ret |-> s.ret]

\* the executor of loadQuestions, or its interval callback, has settled the
\* promise with `state`; the handler goes on after its await
Settle(state, message) ==
    /\ loadState' = state
    /\ attempts' = 0
    /\ questionsLoaded' = TRUE
    /\ IF state = "resolved"
       THEN LET loaded == [Cur EXCEPT !.questionsArray = data.items]
            IN  /\ \E i \in RandomIndexes(loaded) :
                    LET s == showQuestionWhenReady(loaded, TRUE, bootComplete, i)
                    IN  Becomes(s) /\ event' = Event("other", s)
                /\ UNCHANGED <<loadError, errorTimer>>
       ELSE /\ loadError' = message
            /\ errorTimer' = "pending"
            /\ Becomes(Cur)
            /\ event' = Event("other", Cur)

\* The module state as app.js declares it; the elements as the page holds
\* them before any handler runs: the input and the button enabled, the result
\* panel and the error message not displayed, the texts not yet set.
AppInit ==
    /\ page = "loading"
    /\ data \in {Undefined} \cup DataValues
    /\ bootStage = "boot"
    /\ questionsArray = <<>>
    /\ currentQuestion = Null
    /\ questionsAnswered = 0
    /\ totalError = 0
    /\ withinOneOrder = 0
    /\ questionDisplay = <<>>
    /\ answerInput = [value |-> <<>>, disabled |-> FALSE, borderColor |-> ""]
    /\ submitBtn = [disabled |-> FALSE]
    /\ resultDisplay = [display |-> "none"]
    /\ resultContent = Null
    /\ errorMessage = [textContent |-> "", display |-> "none"]
    /\ statQuestions = <<>>
    /\ statError = <<>>
    /\ statAccuracy = <<>>
    /\ loadState = "idle"
    /\ attempts = 0
    /\ loadError = ""
    /\ questionsLoaded = FALSE
    /\ bootComplete = FALSE
    /\ bootTimer = FALSE
    /\ errorTimer = "none"
    /\ event = [name |-> "other", ret |-> "none"]
    /\ errs = <<>>
    /\ initialDisplays = 0
    /\ scoresOfQuestion = 0

EvOff ==
    /\ evPc = "off"
    /\ evIn = <<>>
    /\ evNum = Null
    /\ evOrder = Null
    /\ evCorrect = Null
    /\ evErr = Null
    /\ evFeedback = Null
    /\ evStats = Null
    /\ evShown = Null
    /\ evRet = "none"

Init == AppInit /\ EvOff

\* data.js runs and sets the global
DataScript ==
    /\ ~data.defined
    /\ data' \in DataValues
    /\ event' = Event("other", Cur)
    /\ UNCHANGED <<page, bootStage, loadState, attempts, loadError, questionsLoaded,
                   bootComplete, bootTimer, errorTimer, evVars>>
    /\ Becomes(Cur)

\* the DOMContentLoaded handler, up to its await and past it when
\* loadQuestions settles at once
DOMContentLoaded ==
    /\ page = "loading"
    /\ page' = "ready"
    /\ bootTimer' = TRUE
    /\ IF DataCheck(data) = "polling"
       THEN /\ loadState' = "polling"
            /\ attempts' = 0
            /\ event' = Event("other", Cur)
            /\ Becomes(Cur)
            /\ UNCHANGED <<loadError, questionsLoaded, errorTimer>>
       ELSE Settle(DataCheck(data), NoQuestionsFound)
    /\ UNCHANGED <<data, bootStage, bootComplete, evVars>>

\* the interval callback, were the interval not cleared by the 50th poll:
\* a later poll that finds the questions still stores them
PollTickUncleared ==
    /\ page = "ready"
    /\ loadState \in {"polling", "rejected"}
    /\ IF loadState = "rejected"
       THEN /\ loadError = DataNotLoaded
            /\ DataCheck(data) = "resolved"
            /\ questionsArray = <<>>
            /\ Becomes([Cur EXCEPT !.questionsArray = data.items])
            /\ event' = Event("other", Cur)
            /\ UNCHANGED <<loadState, attempts, loadError, questionsLoaded, errorTimer>>
       ELSE IF DataCheck(data) # "polling"
       THEN Settle(DataCheck(data), NoQuestionsFound)
       ELSE IF attempts + 1 >= maxAttempts
       THEN Settle("rejected", DataNotLoaded)
       ELSE /\ attempts' = attempts + 1
            /\ event' = Event("other", Cur)
            /\ Becomes(Cur)
            /\ UNCHANGED <<loadState, loadError, questionsLoaded, errorTimer>>
    /\ UNCHANGED <<page, data, bootStage, bootComplete, bootTimer, evVars>>

\* the interval callback of loadQuestions, every 100 ms
PollTick ==
    /\ page = "ready"
    /\ loadState = "polling"
    /\ IF DataCheck(data) # "polling"
       THEN Settle(DataCheck(data), NoQuestionsFound)
       ELSE IF attempts + 1 >= maxAttempts
       THEN Settle("rejected", DataNotLoaded)
       ELSE /\ attempts' = attempts + 1
            /\ event' = Event("other", Cur)
            /\ Becomes(Cur)
            /\ UNCHANGED <<loadState, loadError, questionsLoaded, errorTimer>>
    /\ UNCHANGED <<page, data, bootStage, bootComplete, bootTimer, evVars>>

\* the 900 ms timer of showBootSequence: the boot screen fades
BootFade ==
    /\ page = "ready"
    /\ bootStage = "boot"
    /\ bootStage' = "fading"
    /\ event' = Event("other", Cur)
    /\ Becomes(Cur)
    /\ UNCHANGED <<page, data, loadState, attempts, loadError, questionsLoaded,
                   bootComplete, bootTimer, errorTimer, evVars>>

\* the 300 ms timer set by the former: the desktop shows
DesktopShow ==
    /\ bootStage = "fading"
    /\ bootStage' = "desktop"
    /\ event' = Event("other", Cur)
    /\ Becomes(Cur)
    /\ UNCHANGED <<page, data, loadState, attempts, loadError, questionsLoaded,
                   bootComplete, bootTimer, errorTimer, evVars>>

\* the 1200 ms timer of the handler; the 900 ms timer, set before it, is first
BootTimer ==
    /\ bootTimer
    /\ bootStage # "boot"
    /\ bootTimer' = FALSE
    /\ bootComplete' = TRUE
    /\ \E i \in RandomIndexes(Cur) :
        LET s == showQuestionWhenReady(Cur, questionsLoaded, TRUE, i)
        IN  Becomes(s) /\ event' = Event("other", s)
    /\ UNCHANGED <<page, data, bootStage, loadState, attempts, loadError, questionsLoaded,
                   errorTimer, evVars>>

\* the 1200 ms timer of the catch; the timer above, set before it, is first
ErrorTimer ==
    /\ errorTimer = "pending"
    /\ ~bootTimer
    /\ errorTimer' = "fired"
    /\ LET s == showLoadError(Cur, loadError)
       IN  Becomes(s) /\ event' = Event("other", s)
    /\ UNCHANGED <<page, data, bootStage, loadState, attempts, loadError, questionsLoaded,
                   bootComplete, bootTimer, evVars>>

\* what no event of the user changes
Loader == <<page, data, bootStage, loadState, attempts, loadError, questionsLoaded,
            bootComplete, bootTimer, errorTimer, evVars>>

\* the user can reach the elements once the desktop shows
Reachable == page = "ready" /\ bootStage = "desktop"

\* the user types into answerInput
TypeText ==
    /\ Reachable
    /\ ~answerInput.disabled
    /\ \E text \in TypedTexts :
        LET s == inputInput([Cur EXCEPT !.answerInput.value = text])
        IN  Becomes(s) /\ event' = Event("other", s)
    /\ UNCHANGED Loader

\* a click on submitBtn
SubmitClick ==
    /\ Reachable
    /\ ~submitBtn.disabled
    /\ questionsAnswered < MaxAnswered
    /\ LET s == checkAnswer(Cur)
       IN  Becomes(s) /\ event' = Event("submitClick", s)
    /\ UNCHANGED Loader

\* a click on nextBtn
NextClick ==
    /\ Reachable
    /\ \E i \in RandomIndexes(Cur) :
        LET s == nextQuestion(Cur, i)
        IN  Becomes(s) /\ event' = Event("other", s)
    /\ UNCHANGED Loader

\* a key goes down in answerInput: its listener, then that of document
InputKeydown ==
    /\ Reachable
    /\ ~answerInput.disabled
    /\ questionsAnswered < MaxAnswered
    /\ \E key \in Keys, i \in RandomIndexes(Cur) :
        LET s == documentKeydown(inputKeydown(Cur, key), key, i)
        IN  Becomes(s) /\ event' = Event("inputKeydown", s)
    /\ UNCHANGED Loader

\* a key goes down elsewhere in the document
DocumentKeydown ==
    /\ page = "ready"
    /\ \E key \in Keys, i \in RandomIndexes(Cur) :
        LET s == documentKeydown(Cur, key, i)
        IN  Becomes(s) /\ event' = Event("other", s)
    /\ UNCHANGED Loader

Next ==
    \/ DataScript
    \/ DOMContentLoaded
    \/ PollTick
    \/ BootFade
    \/ DesktopShow
    \/ BootTimer
    \/ ErrorTimer
    \/ TypeText
    \/ SubmitClick
    \/ NextClick
    \/ InputKeydown
    \/ DocumentKeydown

Spec == Init /\ [][Next]_vars

\* the event loop runs every task that is due: the page loads, the interval
\* ticks and the timers fire
SpecFair ==
    /\ Spec
    /\ WF_vars(DOMContentLoaded)
    /\ WF_vars(PollTick)
    /\ WF_vars(BootFade)
    /\ WF_vars(DesktopShow)
    /\ WF_vars(BootTimer)
    /\ WF_vars(ErrorTimer)

(***************************************************************************)
(* The evaluator pipeline, on its own: checkAnswer's chain                 *)
(*   parseUserInput -> toOrderOfMagnitude -> calculateError -> feedback    *)
(* run on every text of at most MaxLen characters, and toOrderOfMagnitude  *)
(* run on every number of the bounded set Numbers.                         *)
(***************************************************************************)
\* finite numbers: toOrderOfMagnitude is handed nothing else by checkAnswer
Numbers ==
    {Canonical(FALSE, m, e) : m \in 0..MaxMant, e \in (0 - MaxExp)..MaxExp}
        \cup {Canonical(TRUE, m, 0) : m \in 0..9}

Orders == (0 - 1)..MaxOrder

\* counters of a session: every answer within one order adds at most 1 to
\* totalError, every other one at least 2
Counters ==
    {c \in [questionsAnswered : 0..MaxTracked, totalError : 0..(3 * MaxTracked),
            withinOneOrder : 0..MaxTracked] :
        /\ c.withinOneOrder <= c.questionsAnswered
        /\ c.totalError >= 2 * (c.questionsAnswered - c.withinOneOrder)
        /\ c.questionsAnswered = c.withinOneOrder => c.totalError <= c.withinOneOrder}

EvInit ==
    /\ \/ evPc = "text" /\ evIn \in Texts(MaxLen) /\ evNum = Null /\ evStats = Null
       \/ evPc = "number" /\ evIn = <<>> /\ evNum \in {Some(v) : v \in Numbers}
            /\ evStats = Null
       \/ evPc = "stats" /\ evIn = <<>> /\ evNum = Null /\ evStats \in {Some(c) : c \in Counters}
    /\ evShown = Null
    /\ evRet = "none"
    /\ evOrder = Null
    /\ evCorrect = Null
    /\ evErr = Null
    /\ evFeedback = Null

EvParse ==
    /\ evPc = "text"
    /\ evNum' = parseUserInput(evIn)
    /\ evPc' = IF evNum' = Null THEN "rejected" ELSE "number"
    /\ UNCHANGED <<evIn, evOrder, evCorrect, evErr, evFeedback, evStats, evShown, evRet, appVars>>

EvOrder ==
    /\ evPc = "number"
    /\ evOrder' = toOrderOfMagnitude(evNum[1])
    /\ evPc' = IF evOrder' = Null THEN "rejected" ELSE "order"
    /\ UNCHANGED <<evIn, evNum, evCorrect, evErr, evFeedback, evStats, evShown, evRet, appVars>>

EvError ==
    /\ evPc = "order"
    /\ \E correctOrder \in Orders :
        /\ evCorrect' = Some(correctOrder)
        /\ evErr' = Some(calculateError(evOrder[1], correctOrder))
    /\ evPc' = "error"
    /\ UNCHANGED <<evIn, evNum, evOrder, evFeedback, evStats, evShown, evRet, appVars>>

EvFeedback ==
    /\ evPc = "error"
    /\ evFeedback' = Some([class |-> getFeedbackClass(evErr[1]),
                           message |-> getFeedbackMessage(evErr[1])])
    /\ evPc' = "done"
    /\ UNCHANGED <<evIn, evNum, evOrder, evCorrect, evErr, evStats, evShown, evRet, appVars>>

EvTracker ==
    /\ evPc = "stats"
    /\ LET s == updateScoreTracker([Cur EXCEPT
                    !.questionsAnswered = evStats[1].questionsAnswered,
                    !.totalError = evStats[1].totalError,
                    !.withinOneOrder = evStats[1].withinOneOrder])
       IN  evShown' = Some([statQuestions |-> s.statQuestions,
                            statError |-> s.statError,
                            statAccuracy |-> s.statAccuracy])
    /\ evPc' = "shown"
    /\ UNCHANGED <<evIn, evNum, evOrder, evCorrect, evErr, evFeedback, evStats, evRet, appVars>>

\* checkAnswer, called with the text in the input and a question displayed
EvCheck ==
    /\ evPc = "text"
    /\ evRet' = checkAnswer([Cur EXCEPT !.answerInput.value = evIn,
                                        !.questionsArray = <<Question(1)>>,
                                        !.currentQuestion = Some(Question(1))]).ret
    /\ evPc' = "checked"
    /\ UNCHANGED <<evIn, evNum, evOrder, evCorrect, evErr, evFeedback, evStats, evShown,
                   appVars>>

EvNext ==
    \/ EvCheck
    \/ EvParse
    \/ EvOrder
    \/ EvError
    \/ EvFeedback
    \/ EvTracker

InitEval == AppInit /\ data = Undefined /\ EvInit

SpecEval == InitEval /\ [][EvNext]_vars

(***************************************************************************)
(* Claims about the evaluator                                              *)
(***************************************************************************)
EvOrderTaken == evNum # Null /\ evPc \in {"order", "error", "done"}

EvOrderRefused == evNum # Null /\ evPc = "rejected"

EvTextAccepted == evIn # <<>> /\ evNum # Null /\ evPc # "text"

\* C2: toOrderOfMagnitude(1000) = 3, toOrderOfMagnitude(3160) = 4 and
\* toOrderOfMagnitude(316000) = 6: a value of 3.16 * 10^n or more rounds up
\* to n + 1.
C2_BoundaryRoundsUp ==
    EvOrderTaken =>
        /\ evNum[1] = Canonical(FALSE, 1000, 0) => evOrder = Some(3)
        /\ evNum[1] = Canonical(FALSE, 3160, 0) => evOrder = Some(4)
        /\ evNum[1] = Canonical(FALSE, 316000, 0) => evOrder = Some(6)

\* 10^(2k-1) <= m^2 < 10^(2k+1), for integers m >= 1 and k
InBand(m, k) ==
    IF k < 0 THEN FALSE
    ELSE IF k = 0 THEN m * m < 10
    ELSE LET q == (m * m) \div Pow10(2 * k - 1) IN 1 <= q /\ q < 100

TierOfError(e) ==
    IF e = 0 THEN "exact" ELSE IF e = 1 THEN "close" ELSE IF e = 2 THEN "ballpark" ELSE "off"

TierOfClass(class) ==
    IF class = "feedback-exact" THEN "exact"
    ELSE IF class = "feedback-close" THEN "close"
    ELSE IF class = "feedback-ballpark" THEN "ballpark"
    ELSE IF class = "feedback-off" THEN "off"
    ELSE "none"

TierOfMessage(message) ==
    IF message[1] = "Exactly right!" THEN "exact"
    ELSE IF message[1] = "Close! Off by 1 order of magnitude" THEN "close"
    ELSE IF message[1] = "In the ballpark. Off by " THEN "ballpark"
    ELSE IF message[1] = "Off by " THEN "off"
    ELSE "none"

\* C4: an error e >= 0 gets the tier exact for 0, close for 1, ballpark for 2
\* and off for 3 or more, and the class and the message are of that one tier.
C4_FeedbackTiers ==
    evPc = "done" =>
        /\ evErr[1] >= 0
        /\ TierOfClass(evFeedback[1].class) = TierOfError(evErr[1])
        /\ TierOfMessage(evFeedback[1].message) = TierOfError(evErr[1])

C4_Witness ==
    /\ evPc = "done"
    /\ evErr = Some(2)
    /\ evFeedback[1].class = "feedback-ballpark"
    /\ evFeedback[1].message = <<"In the ballpark. Off by ", 2, " orders of magnitude">>

AllDigits(s) == \A i \in 1..Len(s) : IsDigit(s[i])

Unsigned(s) == IF s # <<>> /\ IsSign(s[1]) THEN Tail(s) ELSE s

\* digits [. [digits]] or . digits
IsMantissa(s) ==
    \/ s # <<>> /\ AllDigits(s)
    \/ \E i \in 1..Len(s) :
        /\ s[i] = "."
        /\ AllDigits(SubSeq(s, 1, i - 1))
        /\ AllDigits(SubSeq(s, i + 1, Len(s)))
        /\ Len(s) > 1

\* (e|E) [+-] digits
IsExponent(s) ==
    /\ s # <<>>
    /\ s[1] \in {"e", "E"}
    /\ Unsigned(Tail(s)) # <<>>
    /\ AllDigits(Unsigned(Tail(s)))

\* the whole of s is a decimal or scientific-notation numeral
IsNumeral(s) ==
    LET u == Unsigned(s)
    IN  \E k \in 1..Len(u) :
            /\ IsMantissa(SubSeq(u, 1, k))
            /\ k = Len(u) \/ IsExponent(SubSeq(u, k + 1, Len(u)))

\* C5: parseUserInput accepts a text only if the whole trimmed text is a
\* decimal or scientific-notation numeral of a finite value > 0.
C5_OnlyWholeNumeralsAccepted ==
    EvTextAccepted =>
        /\ IsNumeral(Trim(evIn))
        /\ isFinite(evNum[1])
        /\ IsPositive(evNum[1])

(***************************************************************************)
(* Claims about the session and the page                                   *)
(***************************************************************************)
RECURSIVE SumSeq(_)
SumSeq(q) == IF q = <<>> THEN 0 ELSE Head(q) + SumSeq(Tail(q))

\* C1: after N accepted answers with errors e1..eN, questionsAnswered = N,
\* totalError = e1 + ... + eN and withinOneOrder is the number of e_i <= 1;
\* the answer just accepted is counted with the error the result shows.
C1_CountersFollowAnswers ==
    /\ questionsAnswered = Len(errs)
    /\ totalError = SumSeq(errs)
    /\ withinOneOrder = Cardinality({i \in 1..Len(errs) : errs[i] <= 1})
    /\ event.ret = "scored" =>
          /\ errs # <<>>
          /\ resultContent # Null
          /\ errs[Len(errs)] = resultContent[1].error
          /\ \/ resultContent[1].error = resultContent[1].userOrder - resultContent[1].correctOrder
             \/ resultContent[1].error = resultContent[1].correctOrder - resultContent[1].userOrder

C1_Witness ==
    /\ errs = <<1, 2>>
    /\ questionsAnswered = 2
    /\ totalError = 3
    /\ withinOneOrder = 1

Rejections == {"empty", "invalid", "noQuestion"}

RejectionMessages ==
    {"Please enter an answer", "Please enter a valid number", "No question loaded"}

\* C6: an event in which checkAnswer rejects the submission leaves an error
\* message shown, and the counters, currentQuestion, the result panel and the
\* input and the submit button (both enabled) as they were.
C6_RejectionChangesNothing ==
    [][event'.ret \in Rejections =>
          /\ errorMessage'.display = "block"
          /\ errorMessage'.textContent \in RejectionMessages
          /\ UNCHANGED <<questionsAnswered, totalError, withinOneOrder, currentQuestion,
                         resultDisplay, resultContent, submitBtn, errs>>
          /\ answerInput'.disabled = answerInput.disabled
          /\ answerInput'.value = answerInput.value
          /\ ~answerInput'.disabled
          /\ ~submitBtn'.disabled]_vars

C6_Witness ==
    /\ event = [name |-> "inputKeydown", ret |-> "invalid"]
    /\ currentQuestion # Null
    /\ questionsAnswered = 1
    /\ errorMessage = [textContent |-> "Please enter a valid number", display |-> "block"]
    /\ ~answerInput.disabled

\* C7: the counters never decrease and are never reset, an event changes
\* them only if checkAnswer scores an answer in it, and in every state
\* 0 <= withinOneOrder <= questionsAnswered and totalError >= 0.
C7_CountersOnlyGrow ==
    /\ [](0 <= withinOneOrder /\ withinOneOrder <= questionsAnswered /\ totalError >= 0)
    /\ [][/\ questionsAnswered' >= questionsAnswered
          /\ totalError' >= totalError
          /\ withinOneOrder' >= withinOneOrder
          /\ <<questionsAnswered, totalError, withinOneOrder>>'
                 # <<questionsAnswered, totalError, withinOneOrder>>
             => event'.ret = "scored"]_vars

C7_Witness ==
    /\ questionsAnswered = 2
    /\ totalError > 0
    /\ event.ret = "none"
    /\ resultDisplay.display = "none"
    /\ ~answerInput.disabled

\* the number a text of digits and a last character shows before that character
ShownBeforeLast(text) == DigitsValue(text, 1, Len(text) - 1)

\* the tenths a text d...d.d shows
ShownTenths(text) == 10 * DigitsValue(text, 1, Len(text) - 2) + DigitVal(text[Len(text)])

\* n is x rounded to an integer, a half going up: n - 1/2 <= x < n + 1/2, x = num / den
IsRounded(n, num, den) == (2 * n - 1) * den <= 2 * num /\ 2 * num < (2 * n + 1) * den

\* C8: updateScoreTracker shows the accuracy round(100 * withinOneOrder /
\* questionsAnswered), an integer in 0..100, and the average error totalError /
\* questionsAnswered rounded to one decimal; with no answer they are 0 and 0.0.
C8_DisplayedMetrics ==
    evPc = "shown" =>
        LET c == evStats[1]
            shown == evShown[1]
            accuracy == ShownBeforeLast(shown.statAccuracy)
        IN  /\ Len(shown.statAccuracy) >= 4
            /\ shown.statAccuracy[Len(shown.statAccuracy)] = "%"
            /\ AllDigits(SubSeq(shown.statAccuracy, 1, Len(shown.statAccuracy) - 1))
            /\ accuracy \in 0..100
            /\ Len(shown.statError) >= 3
            /\ shown.statError[Len(shown.statError) - 1] = "."
            /\ IF c.questionsAnswered = 0
               THEN accuracy = 0 /\ shown.statError = <<"0", ".", "0">>
               ELSE /\ IsRounded(accuracy, 100 * c.withinOneOrder, c.questionsAnswered)
                    /\ IsRounded(ShownTenths(shown.statError), 10 * c.totalError,
                                 c.questionsAnswered)

C8_Witness ==
    /\ evPc = "shown"
    /\ evStats = Some([questionsAnswered |-> 3, totalError |-> 2, withinOneOrder |-> 2])
    /\ evShown[1].statAccuracy = <<"0", "6", "7", "%">>
    /\ evShown[1].statError = <<"0", ".", "7">>

LoadErrorShown ==
    /\ questionDisplay = <<"ERROR: ", loadError>>
    /\ loadError \in {NoQuestionsFound, DataNotLoaded}
    /\ answerInput.disabled
    /\ submitBtn.disabled

\* C9: if loadQuestions rejects, the error message is eventually shown in the
\* question display with the input and the submit button disabled, and from
\* then on both are disabled at the end of every event.
C9_LoadFailureDisables ==
    /\ (loadState = "rejected" /\ errorTimer # "fired") ~> (errorTimer = "fired" /\ LoadErrorShown)
    /\ [](errorTimer = "fired" => answerInput.disabled /\ submitBtn.disabled)

C9_Witness ==
    /\ loadState = "rejected"
    /\ errorTimer = "fired"
    /\ questionDisplay = <<"No questions available.">>
    /\ answerInput.disabled
    /\ submitBtn.disabled

\* C10: at the end of an event in which an answer is accepted, by a click on
\* Submit or by Enter in the input, the result panel is displayed and the
\* input disabled: that event does not go on to the next question.
C10_ResultStaysAfterSubmit ==
    event.ret = "scored" =>
        /\ resultDisplay.display = "block"
        /\ answerInput.disabled
        /\ submitBtn.disabled

\* how checkAnswer returns on invalid user input: no text, or no number > 0
InvalidInputs == {"empty", "invalid"}

\* C11 (as amended): at the end of an event in which checkAnswer rejects an
\* invalid answer, an error message naming the fault is shown and the answer
\* input and the submit button are enabled, for the user to correct the text.
C11_RejectionLeavesInputEnabled ==
    event.ret \in InvalidInputs =>
        /\ errorMessage.display = "block"
        /\ errorMessage.textContent =
              (IF event.ret = "empty" THEN "Please enter an answer"
               ELSE "Please enter a valid number")
        /\ answerInput.borderColor = "#f44336"
        /\ ~answerInput.disabled
        /\ ~submitBtn.disabled

C11_Witness ==
    /\ event = [name |-> "submitClick", ret |-> "invalid"]
    /\ answerInput.value = <<"x">>
    /\ errorMessage = [textContent |-> "Please enter a valid number", display |-> "block"]
    /\ ~answerInput.disabled

\* C11 (as stated): after checkAnswer rejects an invalid answer, the answer
\* input is disabled and an error message is shown.
C11_RejectionDisablesInput ==
    event.ret \in InvalidInputs =>
        /\ answerInput.disabled
        /\ errorMessage.display = "block"

\* C12: calculateError(userOrder, correctOrder) is |userOrder - correctOrder|
\* for integer orders: it is one of the two differences and not negative, the
\* same with the arguments exchanged, and 0 exactly when the orders are equal,
\* and equal orders get the tier exact.
C12_ErrorIsAbsoluteDifference ==
    evPc \in {"error", "done"} =>
        LET u == evOrder[1]
            c == evCorrect[1]
            e == evErr[1]
        IN  /\ e >= 0
            /\ e = u - c \/ e = c - u
            /\ e = 0 <=> u = c
            /\ calculateError(c, u) = e
            /\ evPc = "done" /\ u = c => TierOfClass(evFeedback[1].class) = "exact"

C12_Witness ==
    /\ evPc = "done"
    /\ evOrder = Some(0 - 2)
    /\ evCorrect = Some(3)
    /\ evErr = Some(5)

(***************************************************************************)
(* Claims about the start of the page and the loader                       *)
(***************************************************************************)
\* C13: showQuestionWhenReady displays the first question only once the
\* 1200 ms timer has fired and loadQuestions has resolved, whichever comes
\* first, and does so in the step that makes the second of them true; it calls
\* displayQuestion once and never again; and if loadQuestions resolves the
\* first question is eventually displayed.
C13_FirstQuestionWhenBothReady ==
    /\ [](initialDisplays \in {0, 1})
    /\ [](initialDisplays = 1 <=> bootComplete /\ loadState = "resolved")
    /\ [][initialDisplays' # initialDisplays =>
            /\ initialDisplays' = initialDisplays + 1
            /\ bootComplete' /\ questionsLoaded' /\ loadState' = "resolved"
            /\ ~(bootComplete /\ loadState = "resolved")
            /\ currentQuestion' # Null
            /\ \E i \in 1..Len(questionsArray') : currentQuestion' = Some(questionsArray'[i])
            /\ questionDisplay' = <<currentQuestion'[1].question, currentQuestion'[1].source,
                                    currentQuestion'[1].number>>
            /\ resultDisplay'.display = "none"]_vars
    /\ (loadState = "resolved") ~> (initialDisplays = 1 /\ currentQuestion # Null)

C13_Witness ==
    /\ initialDisplays = 1
    /\ bootComplete
    /\ loadState = "resolved"
    /\ questionsAnswered = 0
    /\ currentQuestion = Some(Question(2))
    /\ questionDisplay = <<Question(2).question, Question(2).source, Question(2).number>>
    /\ ~answerInput.disabled

Settled == {"resolved", "rejected"}

\* how a look at data settles the promise: resolved by an array that is not
\* empty, rejected by an empty one, not at all by anything else
SettledBy(d) ==
    IF d.defined /\ d.isArray /\ Len(d.items) > 0 THEN "resolved"
    ELSE IF d.defined /\ d.isArray THEN "rejected"
    ELSE "pending"

\* a step in which the interval callback of loadQuestions runs
PollStep == loadState = "polling" /\ (attempts' # attempts \/ loadState' # loadState)

\* C14 (as amended): loadQuestions always settles, and settles once: at once
\* if data is already an array (resolving if it is not empty, rejecting if it
\* is), otherwise it polls and settles at the first poll where data is an array
\* or at the 50th poll at the latest (rejecting then); once settled no later
\* poll runs.  It resolves iff data was a non-empty array at the settling
\* check, setting questionsArray = data; on rejection questionsArray is empty.
C14_LoadSettlesOnce ==
    /\ [](loadState = "resolved" =>
            SettledBy(data) = "resolved" /\ questionsArray = data.items)
    /\ [](loadState # "resolved" => questionsArray = <<>>)
    /\ [](loadState = "rejected" => loadError \in {NoQuestionsFound, DataNotLoaded})
    /\ [](loadState = "polling" => attempts < maxAttempts)
    /\ [][loadState = "idle" /\ loadState' # "idle" =>
            /\ loadState' = (IF SettledBy(data) = "pending" THEN "polling"
                             ELSE SettledBy(data))
            /\ loadState' = "rejected" => loadError' = NoQuestionsFound]_vars
    /\ [][PollStep =>
            IF SettledBy(data) # "pending"
            THEN /\ loadState' = SettledBy(data)
                 /\ loadState' = "rejected" => loadError' = NoQuestionsFound
            ELSE IF attempts + 1 = maxAttempts
            THEN loadState' = "rejected" /\ loadError' = DataNotLoaded
            ELSE loadState' = "polling" /\ attempts' = attempts + 1]_vars
    /\ [][(loadState \in Settled) =>
            UNCHANGED <<loadState, attempts, questionsArray, loadError>>]_vars
    /\ (page = "ready") ~> (loadState \in Settled)

\* the 50th poll has rejected
C14_Witness ==
    /\ loadState = "rejected"
    /\ loadError = DataNotLoaded
    /\ questionsArray = <<>>
    /\ errorTimer = "pending"

\* C14 (as stated): loadQuestions resolves at once if data is already a
\* non-empty array, and otherwise polls.
C14_PollsUnlessNonEmpty ==
    [][loadState = "idle" /\ loadState' # "idle" =>
          loadState' = (IF SettledBy(data) = "resolved" THEN "resolved" ELSE "polling")]_vars

(***************************************************************************)
(* Claims about the answering of a question                                *)
(***************************************************************************)
\* C15: between two calls of displayQuestion at most one answer is accepted;
\* once one is, the input and the submit button are disabled, and they are
\* enabled again only in a step that displays a question anew; whenever the
\* result panel is displayed both are disabled.
C15_ScoredAtMostOnce ==
    /\ [](scoresOfQuestion \in {0, 1})
    /\ [](scoresOfQuestion = 1 =>
            resultDisplay.display = "block" /\ answerInput.disabled /\ submitBtn.disabled)
    /\ [](resultDisplay.display = "block" => answerInput.disabled /\ submitBtn.disabled)
    /\ [][(answerInput.disabled /\ ~answerInput'.disabled)
            \/ (submitBtn.disabled /\ ~submitBtn'.disabled) =>
                /\ scoresOfQuestion' = 0
                /\ currentQuestion' # Null
                /\ resultDisplay'.display = "none"
                /\ answerInput'.value = <<>>]_vars

C15_Witness ==
    /\ scoresOfQuestion = 1
    /\ questionsAnswered = 2
    /\ event = [name |-> "submitClick", ret |-> "scored"]
    /\ resultDisplay.display = "block"
    /\ answerInput.disabled
    /\ submitBtn.disabled

\* C16: once loadQuestions has rejected it stays rejected, and in every state
\* from then on, the time before the timer of the catch disables the input
\* included, currentQuestion is null, the counters are 0, no answer has been
\* scored and no result is shown.
C16_NothingScoredAfterRejection ==
    /\ [](loadState = "rejected" =>
            /\ currentQuestion = Null
            /\ questionsAnswered = 0
            /\ totalError = 0
            /\ withinOneOrder = 0
            /\ errs = <<>>
            /\ event.ret # "scored"
            /\ resultDisplay.display = "none"
            /\ resultContent = Null)
    /\ [][loadState = "rejected" => loadState' = "rejected"]_vars

\* a number submitted before the timer of the catch has fired
C16_Witness ==
    /\ loadState = "rejected"
    /\ errorTimer = "pending"
    /\ event = [name |-> "submitClick", ret |-> "noQuestion"]
    /\ answerInput.value = <<"1">>
    /\ errorMessage = [textContent |-> "No question loaded", display |-> "block"]
    /\ currentQuestion = Null
    /\ questionsAnswered = 0

\* C17: in every state currentQuestion is null or an element of
\* questionsArray, and once loadQuestions has resolved no step changes
\* questionsArray or an entry of it: it stays the array that data.js defined.
C17_QuestionsImmutable ==
    /\ [](currentQuestion = Null
            \/ \E i \in 1..Len(questionsArray) : currentQuestion = Some(questionsArray[i]))
    /\ [](loadState = "resolved" => questionsArray = data.items /\ Len(questionsArray) > 0)
    /\ [][loadState = "resolved" => questionsArray' = questionsArray /\ data' = data]_vars

C17_Witness ==
    /\ loadState = "resolved"
    /\ questionsArray = <<Question(1), Question(2)>>
    /\ currentQuestion = Some(Question(2))
    /\ questionsAnswered = 2
    /\ resultDisplay.display = "none"

\* C18: checkAnswer never returns by its branch userOrder === null ('Please
\* enter a valid positive number'): every number parseUserInput returns is
\* finite and > 0, and toOrderOfMagnitude of it is not null.
C18_NullOrderBranchUnreachable ==
    /\ evPc = "checked" => evRet \in {"empty", "invalid", "scored"}
    /\ EvTextAccepted =>
          /\ IsPositive(evNum[1])
          /\ evPc # "rejected"
          /\ evPc \in {"order", "error", "done"} => evOrder # Null

\* a negative number, refused by parseUserInput before toOrderOfMagnitude
C18_Witness ==
    /\ evPc = "checked"
    /\ evIn = <<"-", "1", "e", "3">>
    /\ evRet = "invalid"

====
